---- MODULE Spec2Model ----
(***************************************************************************)
(* Model of the NFTSale blueprint (src/src/lib.rs): one component with an  *)
(* NFT vault, a payment vault, a price and a sale flag, called through     *)
(* role-protected methods.  Every method call is one atomic step: a panic  *)
(* (a failed assert!, an arithmetic overflow, a failed vault withdrawal or *)
(* a failed role check) aborts the transaction and leaves the component    *)
(* exactly as it was.                                                      *)
(*                                                                         *)
(* Amounts are Decimals; the model keeps them as whole numbers of the      *)
(* smallest unit, in a range scaled down to 0..DecimalMax.  A non-fungible *)
(* vault is modelled by the number of units it holds: the source only puts *)
(* whole buckets and takes by count and never names an id.                 *)
(***************************************************************************)
EXTENDS Integers, FiniteSets, Sequences, TLC

\* ------------------------------------------------------------------ bounds
\* units of the NFT collection in existence
NftSupply == 10
\* largest number_of_nfts a caller passes (u16 in the source)
CountMax == 11
\* units of each fungible token in existence
TokenSupply == 4
\* largest price a caller passes to instantiate_nft_sale / change_price
MaxPrice == 2
\* largest representable Decimal (Decimal::MAX, scaled down)
DecimalMax == 6
\* units of a badge beyond which no further mint is tried
MaxBadgeSupply == 2

\* ------------------------------------------------------- program constants
\* lib.rs:170  number_of_nfts <= 10
MaxPerBuy == 10

\* ---------------------------------------------------------------- values
Fungibles == {"XRD", "USD"}
NonFungibles == {"NFT", "ART"}
\* ResourceManager::from_address(a).resource_type()
resource_type(a) == IF a \in NonFungibles THEN "NonFungible" ELSE "Fungible"

\* the two badge resources minted by instantiate_nft_sale
owner_badge == "owner_badge"
admin_badge == "admin_badge"
Badges == {owner_badge, admin_badge}

NoToken == "none"
Overflow == -1

\* outcomes of a call: "None" is success, the others are the aborts
Errors == {"None", "AuthorizationError", "SaleClosedError", "WrongTokenError",
           "QuantityLimitError", "InsufficientPaymentError",
           "InsufficientBalanceError", "InvalidPriceError",
           "NonFungiblePaymentRejected", "NothingToWithdrawError",
           "DecimalOverflow", "ResourceMismatch"}

VARIABLES
    instantiated,            \* has instantiate_nft_sale succeeded
    nft_vault,               \* units held by self.nft_vault
    nft_resource,            \* resource of self.nft_vault
    xrd_vault,               \* amount held by self.xrd_vault
    accepted_payment_token,  \* self.accepted_payment_token
    price,                   \* self.price
    sale_allowed,            \* self.sale_allowed
    badge_supply,            \* units minted of each badge resource
    minter_rule,             \* the minter rule of each badge resource
    recaller_rule,           \* the recaller rule of each badge resource
    admin_badge_recalled,    \* has the admin badge been recalled from its holder
    admin_role_rule,         \* the access rule of the component's admin role
    ever_sold,               \* history: has a buy of one or more NFTs succeeded
    sold_value,              \* history: price * number summed over the
                             \* successful buys since the last withdrawal
    last                     \* the last call: method, arguments, outcome

vars == <<instantiated, nft_vault, nft_resource, xrd_vault,
          accepted_payment_token, price, sale_allowed,
          badge_supply, minter_rule, recaller_rule, admin_badge_recalled,
          admin_role_rule, ever_sold, sold_value, last>>

badges == <<badge_supply, minter_rule, recaller_rule, admin_badge_recalled>>

history == <<ever_sold, sold_value>>

sale == <<instantiated, nft_vault, nft_resource, xrd_vault,
          accepted_payment_token, price, sale_allowed>>

\* record of a call; fields a method does not use stay at their defaults
NoCall ==
    [op |-> "none", proofs |-> {}, kind |-> NoToken, amount |-> 0, n |-> 0,
     err |-> "None", out_amount |-> 0, out_nfts |-> 0, out_kind |-> NoToken,
     out_bool |-> FALSE, caller |-> "none", role |-> "none", rule |-> "none"]

Bucket(k, a) == [resource |-> k, amount |-> a]

\* ------------------------------------------------------------ Decimal
\* Decimal * u16: the operator panics when the product is not representable
checked_mul(d, n) == IF d * n > DecimalMax THEN Overflow ELSE d * n

\* ------------------------------------------------------------ vaults
\* variant: a withdrawal that hands out what is there instead of failing
vault_take_clamped(held, n) ==
    IF n > held
    THEN [err |-> "None", rest |-> 0, out |-> held]
    ELSE [err |-> "None", rest |-> held - n, out |-> n]

\* variant: a withdrawal of nothing is refused
vault_take_nonzero(held, n) ==
    IF n > held \/ n = 0
    THEN [err |-> "InsufficientBalanceError", rest |-> held, out |-> 0]
    ELSE [err |-> "None", rest |-> held - n, out |-> n]

\* Vault::take / NonFungibleVault::take: fails when more is asked than held
vault_take(held, n) ==
    IF n > held
    THEN [err |-> "InsufficientBalanceError", rest |-> held, out |-> 0]
    ELSE [err |-> "None", rest |-> held - n, out |-> n]

\* variant: a bucket of any resource is stored
vault_put_unchecked(res, held, bucket) ==
    [err |-> "None", rest |-> held + bucket.amount]

\* Vault::put: the bucket must be of the vault's resource
vault_put(res, held, bucket) ==
    IF bucket.resource # res
    THEN [err |-> "ResourceMismatch", rest |-> held]
    ELSE [err |-> "None", rest |-> held + bucket.amount]

\* ------------------------------------------------------------ access rules
\* access rules: rule!(deny_all), rule!(require(resource)),
\* rule!(require(global_caller(address)))
deny_all == [type |-> "deny_all", of |-> "none"]
allow_all == [type |-> "allow_all", of |-> "none"]
require(res) == [type |-> "require", of |-> res]
global_caller(address) == [type |-> "global_caller", of |-> address]

\* is the rule met by a call made directly by the global object `caller`
\* with these proofs: require looks at the proofs, global_caller at the
\* address of the object that makes the call
rule_ok(rule, proofs, caller) ==
    CASE rule.type = "allow_all"     -> TRUE
      [] rule.type = "deny_all"      -> FALSE
      [] rule.type = "require"       -> rule.of \in proofs
      [] rule.type = "global_caller" -> caller = rule.of

\* ------------------------------------------------------------ method auth
\* a method open to every caller
PUBLIC == {"PUBLIC"}

\* variant: withdraw_profits opened to the admin role as well
method_roles_admin_withdraw(m) ==
    CASE m \in {"start_sale", "end_sale", "change_price",
                "withdraw_profits", "add_nfts_to_vault"} -> {"admin", "OWNER"}
      [] m \in {"price", "is_sold", "buy"} -> PUBLIC

\* enable_method_auth!: the roles each method is restricted to
method_roles(m) ==
    CASE m = "start_sale"        -> {"admin", "OWNER"}
      [] m = "end_sale"          -> {"admin", "OWNER"}
      [] m = "change_price"      -> {"admin", "OWNER"}
      [] m = "withdraw_profits"  -> {"OWNER"}
      [] m = "add_nfts_to_vault" -> {"admin", "OWNER"}
      [] m = "price"             -> PUBLIC
      [] m = "is_sold"           -> PUBLIC
      [] m = "buy"               -> PUBLIC

\* the rule the admin role is given when the component is globalized
initial_admin_role_rule == require(admin_badge)

\* the access rule of each role: OWNER is OwnerRole::Fixed, admin is the
\* rule the role holds now (admin => updatable_by: [OWNER])
role_rule(r) ==
    CASE r = "OWNER" -> require(owner_badge)
      [] r = "admin" -> admin_role_rule

\* is the rule of role r met by a call made straight from a transaction
role_ok(r, proofs) == rule_ok(role_rule(r), proofs, "none")

\* variant: a guard that wants a proof for every role of the method
authorized_all_roles(m, proofs) ==
    \/ method_roles(m) = PUBLIC
    \/ \A r \in method_roles(m) : role_ok(r, proofs)

\* does a caller presenting these proofs pass the guard of method m
authorized(m, proofs) ==
    \/ method_roles(m) = PUBLIC
    \/ \E r \in method_roles(m) : role_ok(r, proofs)

\* ------------------------------------------------------------ badge rules
\* the address reserved for the component by allocate_component_address
component_address == "component"

\* variant: a minter rule open to everybody
initial_minter_rule_open(b) == allow_all

\* mint_roles! of both badges: minter
initial_minter_rule(b) == global_caller(component_address)

\* mint_roles! of both badges: minter_updater
minter_updater_rule(b) == deny_all

\* recall_roles! of the admin badge: recaller; the owner badge has none
initial_recaller_rule(b) ==
    IF b = admin_badge THEN global_caller(owner_badge) ELSE deny_all

\* recall_roles! of the admin badge: recaller_updater
recaller_updater_rule(b) ==
    IF b = admin_badge THEN global_caller(owner_badge) ELSE deny_all

\* ------------------------------------------------------------ results
\* a call that panics: nothing of the component changes
abort(e) ==
    [err |-> e, nft_vault |-> nft_vault, xrd_vault |-> xrd_vault,
     price |-> price, sale_allowed |-> sale_allowed,
     out_amount |-> 0, out_nfts |-> 0]

\* a call that returns: the fields it leaves and the buckets it hands back
done(nfts, xrd, p, open, amount, items) ==
    [err |-> "None", nft_vault |-> nfts, xrd_vault |-> xrd,
     price |-> p, sale_allowed |-> open,
     out_amount |-> amount, out_nfts |-> items]

\* ------------------------------------------------------------ method bodies
\* pub fn is_sold(&self) -> bool
is_sold == xrd_vault # 0

\* variant: the token is verified before the sale flag
buy_check_token_first(payment, number_of_nfts) ==
    IF payment.resource # accepted_payment_token THEN "WrongTokenError"
    ELSE IF ~sale_allowed THEN "SaleClosedError"
    ELSE IF ~(number_of_nfts <= MaxPerBuy) THEN "QuantityLimitError"
    ELSE IF checked_mul(price, number_of_nfts) = Overflow THEN "DecimalOverflow"
    ELSE IF ~(payment.amount >= checked_mul(price, number_of_nfts))
         THEN "InsufficientPaymentError"
    ELSE "None"

\* variant: the limit is enforced before the token is verified
buy_check_limit_first(payment, number_of_nfts) ==
    IF ~sale_allowed THEN "SaleClosedError"
    ELSE IF ~(number_of_nfts <= MaxPerBuy) THEN "QuantityLimitError"
    ELSE IF payment.resource # accepted_payment_token THEN "WrongTokenError"
    ELSE IF checked_mul(price, number_of_nfts) = Overflow THEN "DecimalOverflow"
    ELSE IF ~(payment.amount >= checked_mul(price, number_of_nfts))
         THEN "InsufficientPaymentError"
    ELSE "None"

\* variant: a limit of 100 NFTs per purchase
buy_check_limit_100(payment, number_of_nfts) ==
    IF ~sale_allowed THEN "SaleClosedError"
    ELSE IF payment.resource # accepted_payment_token THEN "WrongTokenError"
    ELSE IF ~(number_of_nfts <= 100) THEN "QuantityLimitError"
    ELSE IF checked_mul(price, number_of_nfts) = Overflow THEN "DecimalOverflow"
    ELSE IF ~(payment.amount >= checked_mul(price, number_of_nfts))
         THEN "InsufficientPaymentError"
    ELSE "None"

\* variant: the token supplied is not verified
buy_check_any_token(payment, number_of_nfts) ==
    IF ~sale_allowed THEN "SaleClosedError"
    ELSE IF ~(number_of_nfts <= MaxPerBuy) THEN "QuantityLimitError"
    ELSE IF checked_mul(price, number_of_nfts) = Overflow THEN "DecimalOverflow"
    ELSE IF ~(payment.amount >= checked_mul(price, number_of_nfts))
         THEN "InsufficientPaymentError"
    ELSE "None"

\* variant: the amount supplied is not verified
buy_check_no_amount(payment, number_of_nfts) ==
    IF ~sale_allowed THEN "SaleClosedError"
    ELSE IF payment.resource # accepted_payment_token THEN "WrongTokenError"
    ELSE IF ~(number_of_nfts <= MaxPerBuy) THEN "QuantityLimitError"
    ELSE IF checked_mul(price, number_of_nfts) = Overflow THEN "DecimalOverflow"
    ELSE "None"

\* the four assert! of buy, in the order of the source
buy_check(payment, number_of_nfts) ==
    IF ~sale_allowed THEN "SaleClosedError"
    ELSE IF payment.resource # accepted_payment_token THEN "WrongTokenError"
    ELSE IF ~(number_of_nfts <= MaxPerBuy) THEN "QuantityLimitError"
    ELSE IF checked_mul(price, number_of_nfts) = Overflow THEN "DecimalOverflow"
    ELSE IF ~(payment.amount >= checked_mul(price, number_of_nfts))
         THEN "InsufficientPaymentError"
    ELSE "None"

\* variant: the whole payment is stored and no change is returned
buy_body_no_change(payment, number_of_nfts) ==
    LET checked == buy_check(payment, number_of_nfts) IN
    IF checked # "None" THEN abort(checked)
    ELSE
    LET nft == vault_take(nft_vault, number_of_nfts) IN
    IF nft.err # "None" THEN abort(nft.err)
    ELSE
    LET put == vault_put(accepted_payment_token, xrd_vault, payment) IN
    IF put.err # "None" THEN abort(put.err)
    ELSE done(nft.rest, put.rest, price, sale_allowed, 0, nft.out)

\* variant: the revenue taken is the price of one NFT
buy_body_unit_revenue(payment, number_of_nfts) ==
    LET checked == buy_check(payment, number_of_nfts) IN
    IF checked # "None" THEN abort(checked)
    ELSE
    LET nft == vault_take(nft_vault, number_of_nfts) IN
    IF nft.err # "None" THEN abort(nft.err)
    ELSE
    LET revenue == vault_take(payment.amount, price) IN
    IF revenue.err # "None" THEN abort(revenue.err)
    ELSE
    LET put == vault_put(accepted_payment_token, xrd_vault,
                         Bucket(payment.resource, revenue.out)) IN
    IF put.err # "None" THEN abort(put.err)
    ELSE done(nft.rest, put.rest, price, sale_allowed, revenue.rest, nft.out)

\* pub fn buy(&mut self, mut payment: Bucket, number_of_nfts: u16)
buy_body(payment, number_of_nfts) ==
    LET checked == buy_check(payment, number_of_nfts) IN
    IF checked # "None" THEN abort(checked)
    ELSE
    LET nft == vault_take(nft_vault, number_of_nfts) IN
    IF nft.err # "None" THEN abort(nft.err)
    ELSE
    LET revenue == vault_take(payment.amount, checked_mul(price, number_of_nfts)) IN
    IF revenue.err # "None" THEN abort(revenue.err)
    ELSE
    LET put == vault_put(accepted_payment_token, xrd_vault,
                         Bucket(payment.resource, revenue.out)) IN
    IF put.err # "None" THEN abort(put.err)
    ELSE done(nft.rest, put.rest, price, sale_allowed, revenue.rest, nft.out)

\* variant: the vault is emptied without looking at is_sold
withdraw_profits_unchecked ==
    done(nft_vault, 0, price, sale_allowed, xrd_vault, 0)

\* variant: an empty bucket is returned and the vault keeps its funds
withdraw_profits_nothing ==
    IF ~is_sold THEN abort("NothingToWithdrawError")
    ELSE done(nft_vault, xrd_vault, price, sale_allowed, 0, 0)

\* pub fn withdraw_profits(&mut self) -> Bucket
withdraw_profits_body ==
    IF ~is_sold THEN abort("NothingToWithdrawError")
    ELSE done(nft_vault, 0, price, sale_allowed, xrd_vault, 0)

\* variant: any price is accepted
change_price_unchecked(new_price) ==
    done(nft_vault, xrd_vault, new_price, sale_allowed, 0, 0)

\* pub fn change_price(&mut self, price: Decimal)
change_price_body(new_price) ==
    IF ~(new_price >= 0) THEN abort("InvalidPriceError")
    ELSE done(nft_vault, xrd_vault, new_price, sale_allowed, 0, 0)

\* pub fn add_nfts_to_vault(&mut self, nft_deposit_bucket: NonFungibleBucket)
add_nfts_to_vault_body(nft_deposit_bucket) ==
    LET put == vault_put(nft_resource, nft_vault, nft_deposit_bucket) IN
    IF put.err # "None" THEN abort(put.err)
    ELSE done(put.rest, xrd_vault, price, sale_allowed, 0, 0)

\* variant: the flag is flipped instead of set
start_sale_toggle == done(nft_vault, xrd_vault, price, ~sale_allowed, 0, 0)

\* pub fn start_sale(&mut self)
start_sale_body == done(nft_vault, xrd_vault, price, TRUE, 0, 0)

\* pub fn end_sale(&mut self)
end_sale_body == done(nft_vault, xrd_vault, price, FALSE, 0, 0)

\* the guard runs before the body; a rejected caller changes nothing
guarded(m, proofs, body) ==
    IF authorized(m, proofs) THEN body ELSE abort("AuthorizationError")

\* the component after a call with result r
apply(r) ==
    /\ nft_vault' = r.nft_vault
    /\ xrd_vault' = r.xrd_vault
    /\ price' = r.price
    /\ sale_allowed' = r.sale_allowed
    /\ UNCHANGED <<instantiated, nft_resource, accepted_payment_token>>
    /\ UNCHANGED <<badges, admin_role_rule>>

\* ------------------------------------------------------------ inputs
\* addresses handed to instantiate_nft_sale
NftAddresses == {"NFT"}
PaymentAddresses == {"XRD", "NFT"}
Proofs == SUBSET Badges
Prices == -1 .. MaxPrice
Counts == 0 .. CountMax
\* the global object that makes a call directly: none for a call made
\* straight from a transaction, or some other component; the methods of
\* NFTSale call neither mint nor recall nor a role update, so the component
\* itself is never the caller of one
GlobalCallers == {"none", "other_component"}
\* rules a caller may try to install
NewRules == {allow_all, require(owner_badge)}
\* rules a caller may try to give the admin role
NewAdminRules == {allow_all, deny_all, require(admin_badge)}
\* units of resource k that are outside the component's vaults
nfts_outside(k) == NftSupply - (IF k = nft_resource THEN nft_vault ELSE 0)
tokens_outside(k) == TokenSupply - (IF k = accepted_payment_token THEN xrd_vault ELSE 0)

\* ------------------------------------------------------------ state
\* calls are serialized: a call starts only when the previous one is over
idle == last = NoCall

Init ==
    /\ instantiated = FALSE
    /\ nft_vault = 0
    /\ nft_resource = NoToken
    /\ xrd_vault = 0
    /\ accepted_payment_token = NoToken
    /\ price = 0
    /\ sale_allowed = FALSE
    /\ badge_supply = [b \in Badges |-> 0]
    /\ minter_rule = [b \in Badges |-> deny_all]
    /\ recaller_rule = [b \in Badges |-> deny_all]
    /\ admin_badge_recalled = FALSE
    /\ admin_role_rule = deny_all
    /\ ever_sold = FALSE
    /\ sold_value = 0
    /\ last = NoCall

\* variant: the price is verified before the payment token
instantiate_check_price_first(payment_token, initial_price) ==
    IF ~(initial_price >= 0) THEN "InvalidPriceError"
    ELSE IF resource_type(payment_token) = "NonFungible"
        THEN "NonFungiblePaymentRejected"
    ELSE "None"

\* the two assert! of instantiate_nft_sale, in the order of the source
instantiate_check(payment_token, initial_price) ==
    IF resource_type(payment_token) = "NonFungible"
        THEN "NonFungiblePaymentRejected"
    ELSE IF ~(initial_price >= 0) THEN "InvalidPriceError"
    ELSE "None"

\* pub fn instantiate_nft_sale(nft_resource_address, accepted_payment_token, price)
instantiate_nft_sale ==
    /\ idle
    /\ ~instantiated
    /\ \E nft_resource_address \in NftAddresses, payment_token \in PaymentAddresses,
          initial_price \in Prices :
       LET e == instantiate_check(payment_token, initial_price) IN
       /\ last' = [NoCall EXCEPT !.op = "instantiate_nft_sale",
                                 !.kind = payment_token,
                                 !.amount = initial_price,
                                 !.err = e,
                                 !.proofs = IF e = "None" THEN Badges ELSE {}]
       /\ IF e = "None"
          THEN /\ instantiated' = TRUE
               /\ nft_vault' = 0
               /\ nft_resource' = nft_resource_address
               /\ xrd_vault' = 0
               /\ accepted_payment_token' = payment_token
               /\ price' = initial_price
               /\ sale_allowed' = FALSE
               /\ badge_supply' = [b \in Badges |-> 1]
               /\ minter_rule' = [b \in Badges |-> initial_minter_rule(b)]
               /\ recaller_rule' = [b \in Badges |-> initial_recaller_rule(b)]
               /\ admin_role_rule' = initial_admin_role_rule
               /\ UNCHANGED admin_badge_recalled
          ELSE UNCHANGED <<sale, badges, admin_role_rule>>
       /\ UNCHANGED history

add_nfts_to_vault ==
    /\ idle
    /\ instantiated
    /\ \E proofs \in Proofs, k \in NonFungibles :
       \E a \in 0 .. nfts_outside(k) :
       LET nft_deposit_bucket == Bucket(k, a)
           r == guarded("add_nfts_to_vault", proofs,
                        add_nfts_to_vault_body(nft_deposit_bucket)) IN
       /\ apply(r)
       /\ UNCHANGED history
       /\ last' = [NoCall EXCEPT !.op = "add_nfts_to_vault", !.proofs = proofs,
                                 !.kind = nft_deposit_bucket.resource,
                                 !.n = nft_deposit_bucket.amount,
                                 !.err = r.err]

start_sale ==
    /\ idle
    /\ instantiated
    /\ \E proofs \in Proofs :
       LET r == guarded("start_sale", proofs, start_sale_body) IN
       /\ apply(r)
       /\ UNCHANGED history
       /\ last' = [NoCall EXCEPT !.op = "start_sale", !.proofs = proofs,
                                 !.err = r.err]

end_sale ==
    /\ idle
    /\ instantiated
    /\ \E proofs \in Proofs :
       LET r == guarded("end_sale", proofs, end_sale_body) IN
       /\ apply(r)
       /\ UNCHANGED history
       /\ last' = [NoCall EXCEPT !.op = "end_sale", !.proofs = proofs,
                                 !.err = r.err]

buy ==
    /\ idle
    /\ instantiated
    /\ \E proofs \in Proofs, k \in Fungibles, number_of_nfts \in Counts :
       \E a \in 0 .. tokens_outside(k) :
       LET payment == Bucket(k, a)
           r == guarded("buy", proofs, buy_body(payment, number_of_nfts)) IN
       /\ apply(r)
       /\ ever_sold' = (ever_sold \/ (r.err = "None" /\ number_of_nfts >= 1))
       /\ sold_value' = IF r.err = "None"
                        THEN sold_value + price * number_of_nfts ELSE sold_value
       /\ last' = [NoCall EXCEPT !.op = "buy", !.proofs = proofs,
                                 !.kind = payment.resource,
                                 !.amount = payment.amount,
                                 !.n = number_of_nfts,
                                 !.err = r.err,
                                 !.out_amount = r.out_amount,
                                 !.out_kind = IF r.err = "None"
                                              THEN payment.resource ELSE NoToken,
                                 !.out_nfts = r.out_nfts]

withdraw_profits ==
    /\ idle
    /\ instantiated
    /\ \E proofs \in Proofs :
       LET r == guarded("withdraw_profits", proofs, withdraw_profits_body) IN
       /\ apply(r)
       /\ sold_value' = IF r.err = "None" THEN 0 ELSE sold_value
       /\ UNCHANGED ever_sold
       /\ last' = [NoCall EXCEPT !.op = "withdraw_profits", !.proofs = proofs,
                                 !.err = r.err,
                                 !.out_amount = r.out_amount,
                                 !.out_kind = IF r.err = "None"
                                              THEN accepted_payment_token
                                              ELSE NoToken]

change_price ==
    /\ idle
    /\ instantiated
    /\ \E proofs \in Proofs, new_price \in Prices :
       LET r == guarded("change_price", proofs, change_price_body(new_price)) IN
       /\ apply(r)
       /\ UNCHANGED history
       /\ last' = [NoCall EXCEPT !.op = "change_price", !.proofs = proofs,
                                 !.amount = new_price,
                                 !.err = r.err]

\* pub fn price(&self) -> (ResourceAddress, Decimal)
price_call ==
    /\ idle
    /\ instantiated
    /\ \E proofs \in Proofs :
       LET r == guarded("price", proofs, done(nft_vault, xrd_vault, price,
                                              sale_allowed, price, 0)) IN
       /\ apply(r)
       /\ UNCHANGED history
       /\ last' = [NoCall EXCEPT !.op = "price", !.proofs = proofs,
                                 !.err = r.err,
                                 !.out_amount = r.out_amount,
                                 !.out_kind = accepted_payment_token]

is_sold_call ==
    /\ idle
    /\ instantiated
    /\ \E proofs \in Proofs :
       LET r == guarded("is_sold", proofs, done(nft_vault, xrd_vault, price,
                                                sale_allowed, 0, 0)) IN
       /\ apply(r)
       /\ UNCHANGED history
       /\ last' = [NoCall EXCEPT !.op = "is_sold", !.proofs = proofs,
                                 !.err = r.err,
                                 !.out_bool = is_sold]

\* a mint of a badge, open to whoever meets the minter rule of the resource
mint_badge ==
    /\ idle
    /\ instantiated
    /\ \E b \in Badges, proofs \in Proofs, caller \in GlobalCallers :
       LET ok == rule_ok(minter_rule[b], proofs, caller) IN
       /\ badge_supply[b] < MaxBadgeSupply
       /\ badge_supply' = IF ok THEN [badge_supply EXCEPT ![b] = @ + 1]
                          ELSE badge_supply
       /\ last' = [NoCall EXCEPT !.op = "mint", !.kind = b,
                                 !.proofs = proofs, !.caller = caller,
                                 !.err = IF ok THEN "None"
                                        ELSE "AuthorizationError"]
       /\ UNCHANGED <<sale, minter_rule, recaller_rule, admin_badge_recalled,
                      admin_role_rule, history>>

\* a recall of a badge from the vault of its holder, open to whoever meets
\* the recaller rule of the resource
recall_badge ==
    /\ idle
    /\ instantiated
    /\ \E b \in Badges, proofs \in Proofs, caller \in GlobalCallers :
       LET ok == rule_ok(recaller_rule[b], proofs, caller) IN
       /\ admin_badge_recalled' =
             (admin_badge_recalled \/ (ok /\ b = admin_badge))
       /\ last' = [NoCall EXCEPT !.op = "recall", !.kind = b,
                                 !.proofs = proofs, !.caller = caller,
                                 !.err = IF ok THEN "None"
                                        ELSE "AuthorizationError"]
       /\ UNCHANGED <<sale, badge_supply, minter_rule, recaller_rule,
                      admin_role_rule, history>>

\* an update of the minter or the recaller rule of a badge, open to whoever
\* meets the minter_updater or the recaller_updater rule of the resource
update_badge_rule ==
    /\ idle
    /\ instantiated
    /\ \E b \in Badges, role \in {"minter", "recaller"}, new \in NewRules,
          proofs \in Proofs, caller \in GlobalCallers :
       LET updater == IF role = "minter" THEN minter_updater_rule(b)
                      ELSE recaller_updater_rule(b)
           ok == rule_ok(updater, proofs, caller) IN
       /\ minter_rule' = IF ok /\ role = "minter"
                         THEN [minter_rule EXCEPT ![b] = new] ELSE minter_rule
       /\ recaller_rule' = IF ok /\ role = "recaller"
                           THEN [recaller_rule EXCEPT ![b] = new]
                           ELSE recaller_rule
       /\ last' = [NoCall EXCEPT !.op = "update_rule", !.kind = b,
                                 !.role = role, !.rule = new.type,
                                 !.proofs = proofs, !.caller = caller,
                                 !.err = IF ok THEN "None"
                                        ELSE "AuthorizationError"]
       /\ UNCHANGED <<sale, badge_supply, admin_badge_recalled,
                      admin_role_rule, history>>

\* admin => updatable_by: [OWNER]: who may give the admin role a new rule
set_role_authorized(proofs) == role_ok("OWNER", proofs)

\* set_role on the admin role of the globalized component: the rule of the
\* role is replaced when the caller meets the rule of the OWNER role
set_role ==
    /\ idle
    /\ instantiated
    /\ \E new \in NewAdminRules, proofs \in Proofs :
       LET ok == set_role_authorized(proofs) IN
       /\ admin_role_rule' = IF ok THEN new ELSE admin_role_rule
       /\ last' = [NoCall EXCEPT !.op = "set_role", !.role = "admin",
                                 !.rule = new.type, !.kind = new.of,
                                 !.proofs = proofs,
                                 !.err = IF ok THEN "None"
                                        ELSE "AuthorizationError"]
       /\ UNCHANGED <<sale, badges, history>>

\* the transaction that carried the call is over: the next call can start
transaction_end ==
    /\ ~idle
    /\ last' = NoCall
    /\ UNCHANGED <<sale, badges, admin_role_rule, history>>

Next ==
    \/ instantiate_nft_sale
    \/ add_nfts_to_vault
    \/ start_sale
    \/ end_sale
    \/ buy
    \/ withdraw_profits
    \/ change_price
    \/ price_call
    \/ is_sold_call
    \/ mint_badge
    \/ recall_badge
    \/ update_badge_rule
    \/ set_role
    \/ transaction_end

Spec == Init /\ [][Next]_vars

TypeOK ==
    /\ instantiated \in BOOLEAN
    /\ nft_vault \in 0 .. NftSupply
    /\ xrd_vault \in 0 .. TokenSupply
    /\ price \in 0 .. MaxPrice
    /\ sale_allowed \in BOOLEAN
    /\ last.err \in Errors
    /\ admin_role_rule \in NewAdminRules

\* ------------------------------------------------------------ properties
\* the call made by the step, and what it found
called(m) == idle /\ last'.op = m
\* the cost of the purchase the step asks for, as a plain product
cost == price * last'.n
pools_unchanged == nft_vault' = nft_vault /\ xrd_vault' = xrd_vault
\* the caller presents the owner badge or meets the rule the admin role
\* holds when the call is made
admits(proofs) ==
    \/ owner_badge \in proofs
    \/ admin_role_rule.type = "allow_all"
    \/ admin_role_rule.type = "require" /\ admin_role_rule.of \in proofs

\* C1: a buy of 1..10 NFTs, made while the sale is open with a payment of the
\* accepted token that covers price * number and with enough NFTs in the
\* vault, takes exactly that many NFTs out of the NFT vault, adds exactly
\* price * number to the payment vault and returns payment - price * number
\* as change with exactly that many NFTs; price and sale flag stay.
C1_BuyExchanges ==
    [][ ( /\ called("buy")
          /\ sale_allowed
          /\ last'.kind = accepted_payment_token
          /\ last'.n \in 1 .. MaxPerBuy
          /\ last'.amount >= cost
          /\ nft_vault >= last'.n )
        => ( /\ last'.err = "None"
             /\ nft_vault' = nft_vault - last'.n
             /\ xrd_vault' = xrd_vault + cost
             /\ last'.out_amount = last'.amount - cost
             /\ last'.out_kind = accepted_payment_token
             /\ last'.out_nfts = last'.n
             /\ price' = price
             /\ sale_allowed' = sale_allowed ) ]_vars

C1_Witness ==
    /\ last.op = "buy" /\ last.err = "None"
    /\ last.n = 3 /\ price = 1 /\ last.amount = 4
    /\ last.out_amount = 1 /\ last.out_nfts = 3

\* C2: a step that takes k NFTs out of the NFT vault is a buy and adds at
\* least price * k to the payment vault in the same step.
C2_ItemsPaidFor ==
    [][ nft_vault' < nft_vault
        => ( /\ called("buy")
             /\ xrd_vault' - xrd_vault >= price * (nft_vault - nft_vault') ) ]_vars

C2_Witness ==
    /\ last.op = "buy" /\ last.err = "None"
    /\ last.out_nfts = 2 /\ price = 2 /\ xrd_vault = 4

\* C3: withdraw_profits passes the guard exactly when the caller presents the
\* owner badge; with the admin badge alone or with no badge it fails with
\* AuthorizationError and the component is unchanged.
C3_WithdrawOwnerOnly ==
    [][ called("withdraw_profits")
        => IF owner_badge \in last'.proofs
           THEN last'.err # "AuthorizationError"
           ELSE last'.err = "AuthorizationError" /\ UNCHANGED sale ]_vars

C3_Witness ==
    /\ last.op = "withdraw_profits" /\ last.proofs = {admin_badge}
    /\ last.err = "AuthorizationError" /\ xrd_vault > 0

\* C4: withdraw_profits by the owner fails with NothingToWithdrawError and
\* changes nothing when the payment vault is empty; otherwise it returns the
\* whole balance and leaves the payment vault at zero, the rest unchanged.
C4_WithdrawDrains ==
    [][ ( called("withdraw_profits") /\ owner_badge \in last'.proofs )
        => IF xrd_vault = 0
           THEN last'.err = "NothingToWithdrawError" /\ UNCHANGED sale
           ELSE /\ last'.err = "None"
                /\ last'.out_amount = xrd_vault
                /\ last'.out_kind = accepted_payment_token
                /\ xrd_vault' = 0
                /\ UNCHANGED <<nft_vault, price, sale_allowed>> ]_vars

C4_Witness ==
    /\ last.op = "withdraw_profits" /\ last.err = "None"
    /\ last.out_amount = 3 /\ xrd_vault = 0 /\ nft_vault > 0

\* C5: a buy made while sale_allowed is false fails with SaleClosedError and
\* changes nothing, whatever the payment and the number asked; so a buy that
\* succeeds was made with the sale open.
C5_ClosedSaleRejects ==
    [][ called("buy")
        => /\ ~sale_allowed => (last'.err = "SaleClosedError" /\ UNCHANGED sale)
           /\ last'.err = "None" => sale_allowed ]_vars

C5_Witness ==
    /\ last.op = "buy" /\ last.err = "SaleClosedError"
    /\ ~sale_allowed /\ nft_vault > 0
    /\ last.kind = accepted_payment_token /\ last.n = 1 /\ last.amount >= price

\* C6 as stated: a buy of more than 10 NFTs fails with QuantityLimitError.
C6_Original ==
    (last.op = "buy" /\ last.n > MaxPerBuy) => last.err = "QuantityLimitError"

\* C6: a buy of more than 10 NFTs always fails and leaves both vaults
\* unchanged; it fails with QuantityLimitError when the sale is open and the
\* payment is of the accepted token.
C6_QuantityLimit ==
    [][ ( called("buy") /\ last'.n > MaxPerBuy )
        => /\ last'.err # "None"
           /\ pools_unchanged
           /\ (sale_allowed /\ last'.kind = accepted_payment_token)
                 => last'.err = "QuantityLimitError" ]_vars

C6_Witness ==
    /\ last.op = "buy" /\ last.n > MaxPerBuy
    /\ last.err = "QuantityLimitError"
    /\ price = 0 /\ nft_vault = NftSupply

\* C7 as stated: a buy whose payment is below price * number fails with
\* InsufficientPaymentError.
C7_Original ==
    (last.op = "buy" /\ last.amount < price * last.n)
        => last.err = "InsufficientPaymentError"

\* C7: a buy whose payment is below price * number always fails and leaves
\* both vaults unchanged; when the sale is open, the payment is of the
\* accepted token and the number is at most 10, it fails with
\* InsufficientPaymentError if price * number is a representable Decimal and
\* with the overflow of the multiplication if it is not.
C7_InsufficientPayment ==
    [][ ( called("buy") /\ last'.amount < cost )
        => /\ last'.err # "None"
           /\ pools_unchanged
           /\ ( /\ sale_allowed
                /\ last'.kind = accepted_payment_token
                /\ last'.n <= MaxPerBuy )
              => last'.err = IF cost <= DecimalMax
                             THEN "InsufficientPaymentError"
                             ELSE "DecimalOverflow" ]_vars

C7_Witness ==
    /\ last.op = "buy" /\ last.err = "InsufficientPaymentError"
    /\ last.n = 2 /\ price = 2 /\ last.amount = 3 /\ nft_vault >= 2

\* C8: the checks of buy run in the order sale open, token, limit, amount:
\* a buy that violates several of them fails with the error of the first one
\* violated, and a buy that violates any of them changes nothing.
C8_CheckOrder ==
    [][ called("buy")
        => LET closed == ~sale_allowed
               wrong  == last'.kind # accepted_payment_token
               many   == last'.n > MaxPerBuy
               short  == last'.amount < cost
           IN /\ closed => last'.err = "SaleClosedError"
              /\ (~closed /\ wrong) => last'.err = "WrongTokenError"
              /\ (~closed /\ ~wrong /\ many) => last'.err = "QuantityLimitError"
              /\ (closed \/ wrong \/ many \/ short)
                    => (last'.err # "None" /\ UNCHANGED sale) ]_vars

C8_Witness ==
    /\ last.op = "buy" /\ last.err = "WrongTokenError"
    /\ sale_allowed /\ last.kind # accepted_payment_token
    /\ last.n > MaxPerBuy /\ last.amount < price * last.n

\* C9: a buy that passes the four checks but asks for more NFTs than the NFT
\* vault holds fails with InsufficientBalanceError; nothing of the payment is
\* stored and the component is unchanged.
C9_ShortVaultAborts ==
    [][ ( /\ called("buy")
          /\ sale_allowed
          /\ last'.kind = accepted_payment_token
          /\ last'.n <= MaxPerBuy
          /\ last'.amount >= cost
          /\ nft_vault < last'.n )
        => ( /\ last'.err = "InsufficientBalanceError"
             /\ last'.out_amount = 0 /\ last'.out_nfts = 0
             /\ UNCHANGED sale ) ]_vars

C9_Witness ==
    /\ last.op = "buy" /\ last.err = "InsufficientBalanceError"
    /\ nft_vault = 1 /\ last.n = 2 /\ price = 1 /\ last.amount = 3

\* C10 as stated: start_sale, end_sale, change_price and add_nfts_to_vault
\* pass the guard for a caller presenting the admin badge or the owner badge
\* and fail with AuthorizationError, changing nothing, for a caller presenting
\* neither.
C10_Original ==
    [][ ( called("start_sale") \/ called("end_sale") \/ called("change_price")
          \/ called("add_nfts_to_vault") )
        => IF last'.proofs \cap Badges = {}
           THEN last'.err = "AuthorizationError" /\ UNCHANGED sale
           ELSE last'.err # "AuthorizationError" ]_vars

\* C10: start_sale, end_sale, change_price and add_nfts_to_vault pass the
\* guard for a caller that presents the owner badge or meets the rule the
\* admin role holds at the time, and then run (start_sale and end_sale
\* return, change_price sets a price >= 0, add_nfts_to_vault stores a bucket
\* of the vault's resource); for every other caller they fail with
\* AuthorizationError and change nothing.  The rule of the admin role is
\* "present the admin badge" when the component is created and is replaced
\* only by set_role called with the owner badge, which always succeeds.
\* price, is_sold and buy never fail with AuthorizationError.
C10_AccessTable ==
    [][ /\ ( called("start_sale") \/ called("end_sale") \/ called("change_price")
             \/ called("add_nfts_to_vault") )
           => IF ~admits(last'.proofs)
              THEN last'.err = "AuthorizationError" /\ UNCHANGED sale
              ELSE /\ last'.err # "AuthorizationError"
                   /\ called("start_sale") => (last'.err = "None" /\ sale_allowed')
                   /\ called("end_sale") => (last'.err = "None" /\ ~sale_allowed')
                   /\ (called("change_price") /\ last'.amount >= 0)
                         => (last'.err = "None" /\ price' = last'.amount)
                   /\ (called("add_nfts_to_vault") /\ last'.kind = nft_resource)
                         => (last'.err = "None" /\ nft_vault' = nft_vault + last'.n)
        /\ ( called("price") \/ called("is_sold") \/ called("buy") )
           => last'.err # "AuthorizationError"
        /\ (called("instantiate_nft_sale") /\ last'.err = "None")
           => admin_role_rule' = require(admin_badge)
        /\ called("set_role")
           => IF owner_badge \in last'.proofs
              THEN /\ last'.err = "None"
                   /\ admin_role_rule'.type = last'.rule
                   /\ admin_role_rule'.of = last'.kind
              ELSE last'.err = "AuthorizationError" /\ UNCHANGED admin_role_rule
        /\ admin_role_rule' # admin_role_rule
           => \/ called("instantiate_nft_sale")
              \/ called("set_role") /\ owner_badge \in last'.proofs ]_vars

C10_Witness ==
    /\ last.op = "change_price" /\ last.proofs = {admin_badge}
    /\ admin_role_rule = deny_all
    /\ last.err = "AuthorizationError" /\ last.amount = 1 /\ price = 2
    /\ xrd_vault > 0

\* C11 as stated: the price is never negative, a negative initial price is
\* rejected with InvalidPriceError, change_price with a negative value fails
\* with InvalidPriceError and with a value >= 0 sets the price to it.
C11_Original ==
    /\ price >= 0
    /\ (last.op = "instantiate_nft_sale" /\ last.amount < 0)
          => last.err = "InvalidPriceError"
    /\ (last.op = "change_price" /\ last.amount < 0)
          => last.err = "InvalidPriceError"
    /\ (last.op = "change_price" /\ last.amount >= 0) => price = last.amount

\* C11: the price is never negative.  instantiate_nft_sale with a fungible
\* payment token and a negative price fails with InvalidPriceError and
\* creates nothing.  change_price by a caller that presents the owner badge
\* or meets the rule the admin role holds at the time fails with
\* InvalidPriceError and keeps the price when the value is negative, and sets
\* the price to the value otherwise.  Only these two operations change the
\* price.
C11_PriceNonNegative ==
    [][ /\ price >= 0 /\ price' >= 0
        /\ ( /\ called("instantiate_nft_sale")
             /\ last'.amount < 0
             /\ resource_type(last'.kind) = "Fungible" )
           => (last'.err = "InvalidPriceError" /\ UNCHANGED sale)
        /\ ( called("change_price") /\ admits(last'.proofs) )
           => IF last'.amount < 0
              THEN last'.err = "InvalidPriceError" /\ UNCHANGED sale
              ELSE last'.err = "None" /\ price' = last'.amount
        /\ price' # price
           => \/ called("instantiate_nft_sale")
              \/ called("change_price") /\ admits(last'.proofs) ]_vars

C11_Witness ==
    /\ last.op = "change_price" /\ last.proofs = {admin_badge}
    /\ last.amount = -1 /\ last.err = "InvalidPriceError" /\ price = 2

\* C12 as stated: sale_allowed is changed only by start_sale and end_sale
\* called with the admin or the owner badge.
C12_Original ==
    [][ sale_allowed' # sale_allowed
        => /\ called("start_sale") \/ called("end_sale")
           /\ last'.proofs \cap Badges # {} ]_vars

\* C12: sale_allowed is false when the component is created and is changed
\* only by start_sale and end_sale called by a caller that presents the owner
\* badge or meets the rule the admin role holds at the time: start_sale
\* leaves it true and end_sale leaves it false whatever it was, and neither
\* touches the vaults or the price.
C12_SaleFlag ==
    [][ /\ (called("instantiate_nft_sale") /\ last'.err = "None")
           => ~sale_allowed'
        /\ sale_allowed' # sale_allowed
           => /\ called("start_sale") \/ called("end_sale")
              /\ admits(last'.proofs)
        /\ (called("start_sale") /\ admits(last'.proofs))
           => /\ last'.err = "None" /\ sale_allowed'
              /\ UNCHANGED <<nft_vault, xrd_vault, price>>
        /\ (called("end_sale") /\ admits(last'.proofs))
           => /\ last'.err = "None" /\ ~sale_allowed'
              /\ UNCHANGED <<nft_vault, xrd_vault, price>> ]_vars

C12_Witness ==
    /\ last.op = "start_sale" /\ last.proofs = {} /\ last.err = "None"
    /\ admin_role_rule = allow_all
    /\ sale_allowed /\ xrd_vault > 0 /\ nft_vault > 0

\* C13: a recall of the admin badge is authorized exactly for a caller that
\* presents the owner badge.
C13_OwnerRecallsAdmin ==
    (last.op = "recall" /\ last.kind = admin_badge)
        => (last.err = "None" <=> owner_badge \in last.proofs)

\* C14: once the component is created exactly one owner badge exists; every
\* mint of it and every update of its minter rule is rejected, whoever asks.
C14_OneOwnerBadge ==
    [][ /\ instantiated => badge_supply[owner_badge] = 1
        /\ instantiated' => badge_supply'[owner_badge] = 1
        /\ instantiated => minter_rule'[owner_badge] = minter_rule[owner_badge]
        /\ ( /\ called("mint") \/ (called("update_rule") /\ last'.role = "minter")
             /\ last'.kind = owner_badge )
           => last'.err = "AuthorizationError" ]_vars

C14_Witness ==
    /\ last.op = "mint" /\ last.kind = owner_badge
    /\ last.proofs = Badges /\ last.caller = "other_component"
    /\ last.err = "AuthorizationError"
    /\ badge_supply[owner_badge] = 1 /\ ever_sold

\* C15: the accepted payment token is fixed when the component is created;
\* the payment vault grows only by a buy paid in that token, and a buy paid
\* in another token while the sale is open fails with WrongTokenError and
\* stores nothing.
C15_PaymentKind ==
    [][ /\ instantiated => accepted_payment_token' = accepted_payment_token
        /\ xrd_vault' > xrd_vault
           => (called("buy") /\ last'.kind = accepted_payment_token)
        /\ ( /\ called("buy")
             /\ sale_allowed
             /\ last'.kind # accepted_payment_token )
           => (last'.err = "WrongTokenError" /\ UNCHANGED sale) ]_vars

C15_Witness ==
    /\ last.op = "buy" /\ last.err = "WrongTokenError"
    /\ sale_allowed /\ last.kind = "USD" /\ accepted_payment_token = "XRD"
    /\ last.n = 1 /\ price = 1 /\ last.amount = 2 /\ nft_vault >= 1

\* C16: instantiate_nft_sale with a non-fungible payment token fails with
\* NonFungiblePaymentRejected and creates nothing; with a fungible one and a
\* price >= 0 it creates a component with both vaults empty, that price and
\* the sale closed, and hands out one owner badge and one admin badge.
C16_Construction ==
    [][ called("instantiate_nft_sale")
        => IF resource_type(last'.kind) = "NonFungible"
           THEN /\ last'.err = "NonFungiblePaymentRejected"
                /\ ~instantiated'
                /\ UNCHANGED <<sale, badges, admin_role_rule>>
           ELSE last'.amount >= 0
                => /\ last'.err = "None"
                   /\ instantiated'
                   /\ nft_vault' = 0 /\ xrd_vault' = 0
                   /\ accepted_payment_token' = last'.kind
                   /\ price' = last'.amount
                   /\ ~sale_allowed'
                   /\ badge_supply' = [b \in Badges |-> 1]
                   /\ last'.proofs = {owner_badge, admin_badge} ]_vars

C16_Witness ==
    /\ last.op = "instantiate_nft_sale" /\ last.err = "None"
    /\ instantiated /\ last.kind = "XRD" /\ last.amount = 2 /\ price = 2
    /\ badge_supply[owner_badge] = 1 /\ badge_supply[admin_badge] = 1

\* C17: is_sold returns true exactly when a buy of one or more NFTs has
\* succeeded since the component was created.
C17_IsSoldMeansSold ==
    (last.op = "is_sold" /\ last.err = "None") => (last.out_bool <=> ever_sold)

\* both vaults empty and the sale closed
Terminal == nft_vault = 0 /\ xrd_vault = 0 /\ ~sale_allowed

\* the operations C18 names, and the end of the call they make
PublicStep ==
    start_sale \/ end_sale \/ change_price \/ buy \/ withdraw_profits
        \/ transaction_end

\* what is left to do before Terminal: NFTs to sell (each sale needing the
\* sale open and an affordable price), then funds to withdraw and the sale
\* to close; twice that, plus one while a call is not over
Distance ==
    2 * ( IF nft_vault > 0
          THEN 3 * nft_vault + 3 + (IF sale_allowed THEN 0 ELSE 1)
                                 + (IF price = 0 THEN 0 ELSE 1)
          ELSE (IF xrd_vault > 0 THEN 1 ELSE 0)
               + (IF sale_allowed THEN 1 ELSE 0) )
    + (IF idle THEN 0 ELSE 1)

\* C18: from every reachable state of the component the state with both
\* vaults empty and the sale closed can be reached by start_sale, end_sale,
\* change_price, buy and withdraw_profits: in every state that is not that
\* one, one of these operations can make a step that brings it nearer (the
\* distance is a natural number, so repeating such steps ends there).
C18_TerminalReachable ==
    (instantiated /\ ~Terminal) => ENABLED (PublicStep /\ Distance' < Distance)

C18_Witness ==
    /\ instantiated /\ Terminal /\ ever_sold
    /\ last.op = "withdraw_profits" /\ last.err = "None" /\ last.out_amount = 4

\* C19: the NFT vault grows only by add_nfts_to_vault called by a caller that
\* passes its guard, by exactly the units deposited, and shrinks only by a
\* successful buy, by the number bought; the payment vault grows only by a
\* successful buy, by price * number, and shrinks only by withdraw_profits
\* called with the owner badge; so the payment vault always holds the sum of
\* price * number over the successful buys since the last withdrawal.
C19_PoolsFrame ==
    [][ /\ nft_vault' > nft_vault
           => /\ called("add_nfts_to_vault")
              /\ admits(last'.proofs)
              /\ last'.kind = nft_resource
              /\ nft_vault' = nft_vault + last'.n
        /\ nft_vault' < nft_vault
           => /\ called("buy") /\ last'.err = "None"
              /\ nft_vault' = nft_vault - last'.n
        /\ xrd_vault' > xrd_vault
           => /\ called("buy") /\ last'.err = "None"
              /\ xrd_vault' = xrd_vault + cost
        /\ xrd_vault' < xrd_vault
           => /\ called("withdraw_profits") /\ last'.err = "None"
              /\ owner_badge \in last'.proofs
        /\ xrd_vault = sold_value
        /\ xrd_vault' = sold_value' ]_vars

C19_Witness ==
    /\ last.op = "buy" /\ last.err = "None" /\ last.n = 1 /\ price = 1
    /\ xrd_vault = 3 /\ sold_value = 3

\* C20: a buy of zero NFTs made while the sale is open with a payment of the
\* accepted token succeeds whatever the amount and whatever the NFT vault
\* holds: the whole payment comes back with no NFT and nothing changes.
C20_BuyNothing ==
    [][ ( /\ called("buy")
          /\ sale_allowed
          /\ last'.kind = accepted_payment_token
          /\ last'.n = 0 )
        => ( /\ last'.err = "None"
             /\ last'.out_amount = last'.amount
             /\ last'.out_kind = accepted_payment_token
             /\ last'.out_nfts = 0
             /\ UNCHANGED sale ) ]_vars

C20_Witness ==
    /\ last.op = "buy" /\ last.err = "None" /\ last.n = 0
    /\ nft_vault = 0 /\ price = 2 /\ last.amount = 3 /\ last.out_amount = 3

====
